---- MODULE Spec2Model ----
(***************************************************************************)
(* A model of the Koha OPAC terminal client: the fetch orchestrator        *)
(* (src/api/client.py, class KohaAPIClient) as a set of cooperatively      *)
(* scheduled coroutines that suspend at every HTTP request, and the        *)
(* screens that start fetches (src/screens).                               *)
(*                                                                         *)
(* Python values are encoded as follows.  None is the string NoneStr when  *)
(* the value is otherwise a string, and the record NoneVal otherwise.      *)
(* An HTTP outcome is either a response [type |-> "status", ...] or an     *)
(* exception raised by the transport [type |-> "exc", ...].                *)
(***************************************************************************)
EXTENDS Integers, Sequences, FiniteSets, TLC

VARIABLES
    client,      \* KohaAPIClient._client: 0 is None, t > 0 is transport t
    openT,       \* the transports that were created and not yet closed
    created,     \* the number of transports created so far
    libraries,   \* KohaAPIClient._libraries: the library-name cache
    calls,       \* the coroutines running a public operation of the client
    libOk,       \* what the last error-free get_libraries call returned
    libFills,    \* how many fetched library lists wrote into the cache
    lateWrite,   \* the cache was written although an earlier fetch had filled it
    stack,       \* the application's screen stack, bottom first
    staleApplied, \* a fetch result was applied to a screen that was not the active one
    probe        \* the last evaluation of a function of the client: name, input, output

clientVars == <<client, openT, created, libraries, calls, libOk, libFills, lateWrite>>
uiVars == <<stack, staleApplied>>
fnVars == <<probe>>
vars == <<client, openT, created, libraries, calls, libOk, libFills, lateWrite,
          stack, staleApplied, probe>>

----------------------------------------------------------------------------
(* Bounds of the model. *)

\* Coroutines that may run an operation of one client at the same time.
MaxCalls == 2
\* Transports one client may create (scope entries).
MaxTransports == 2
\* Entries in a JSON list returned by the items or libraries endpoint.
MaxItems == 2
\* The largest total_count and per_page handed to total_pages.
MaxTotal == 7
MaxPerPage == 3
\* The most title_summary blocks and checkboxes of a page handed to the parser.
MaxBlocks == 2
MaxCheckboxes == 1
\* The most fields of a MARC record handed to the parser.
MaxFields == 3
MaxPage == 3

Calls == 1..MaxCalls

----------------------------------------------------------------------------
(* Python values. *)

NoneStr == "<None>"
NoneVal == [kind |-> "None"]

\* bool(s) for an Optional[str]: None and "" are both false.
Truthy(s) == s # NoneStr /\ s # ""

\* The sequences over S of length at most n.
RECURSIVE SeqsUpTo(_, _)
SeqsUpTo(S, n) ==
    IF n = 0 THEN {<<>>}
    ELSE LET shorter == SeqsUpTo(S, n - 1)
         IN  shorter \cup {Append(s, x) : s \in {t \in shorter : Len(t) = n - 1}, x \in S}

----------------------------------------------------------------------------
(* What the network can answer. *)

\* Exceptions httpx raises from client.get, with their str().  A timeout
\* raised by the transport carries no message.
Exceptions ==
    { [type |-> "exc", exc |-> "TimeoutException", msg |-> ""],
      [type |-> "exc", exc |-> "ConnectError", msg |-> "All connection attempts failed"],
      [type |-> "exc", exc |-> "Exception", msg |-> "boom"] }

Response(status, body) == [type |-> "status", status |-> status, body |-> body]

\* Messages of the exceptions the client's own code raises while it handles a body.
MsgJsonDecode == "Expecting value: line 1 column 1 (char 0)"
MsgBadInt == "invalid literal for int() with base 10: 'abc'"
MsgNoGet == "object has no attribute 'get'"

\* Entries of a JSON list: objects, or a value that is not an object.
NotObject == [obj |-> FALSE]

LibraryEntries ==
    { [obj |-> TRUE, library_id |-> "CPL", name |-> "Central Library"],
      [obj |-> TRUE, library_id |-> "FPL", name |-> NoneStr],
      NotObject }

\* Flag values of an item payload: the key is absent, null, 0 or non-zero.
FlagValues == {"absent", "null", "zero", "nonzero"}

Item(id, lib, nfl, lost, damaged, withdrawn, checkedOut) ==
    [obj |-> TRUE, item_id |-> id, home_library_id |-> lib,
     not_for_loan_status |-> nfl, lost_status |-> lost,
     damaged_status |-> damaged, withdrawn |-> withdrawn,
     checked_out_date |-> checkedOut]

ItemEntries ==
    { Item(1, "CPL", "zero", "zero", "zero", "zero", "absent"),
      Item(2, "FPL", "absent", "nonzero", "absent", "absent", "date"),
      NotObject }

\* JSON bodies of the REST endpoints.  An object is given by its keys; the
\* value of "error" is "E1" and the value of "errors" is "E2".
JsonNonList ==
    { [kind |-> "nonjson"], [kind |-> "null"], [kind |-> "number"] }
    \cup { [kind |-> "object", keys |-> k] :
             k \in {{}, {"error"}, {"errors"}, {"error", "errors"}, {"x"}} }

JsonLists(entries) ==
    { [kind |-> "list", items |-> s, xtotal |-> h] :
        s \in SeqsUpTo(entries, MaxItems), h \in {"0", "abc"} }

\* HTTP statuses: _get tells 200, 404 and 400 from the rest, the other
\* requests tell 200 (and 404) from the rest.
Statuses == {200, 400, 404, 500}
PageStatuses == {200, 404, 500}

RestOutcomes(entries) ==
    Exceptions
    \cup { Response(200, b) : b \in JsonNonList \cup JsonLists(entries) }
    \cup { Response(s, b) : s \in Statuses \ {200}, b \in JsonNonList }

----------------------------------------------------------------------------
(* KohaAPIClient._get: the shared GET helper of the REST endpoints. *)

\* What _get hands back for a 200 body: a JSON list is wrapped in a dict.
Wrapped(items) == [kind |-> "wrapped", items |-> items]

GetResult(data, error) == [data |-> data, error |-> error]

\* "error" in error_data / error_data["error"], for a body of a failed request;
\* json() of a non-JSON body and `in` on null or a number raise, which the
\* bare except swallows.
HasKey(body, key) == body.kind = "object" /\ key \in body.keys

Get200(body) ==
    CASE body.kind = "nonjson" -> GetResult(NoneVal, MsgJsonDecode)
      [] body.kind = "list" ->
            IF body.xtotal = "abc"
            THEN GetResult(NoneVal, MsgBadInt)
            ELSE GetResult(Wrapped(body.items), NoneStr)
      [] body.kind = "null" -> GetResult(NoneVal, NoneStr)
      [] OTHER -> GetResult(body, NoneStr)

Get400(body) ==
    IF HasKey(body, "error") THEN GetResult(NoneVal, "Bad request: " \o "E1")
    ELSE IF HasKey(body, "errors") THEN GetResult(NoneVal, "Bad request: " \o "E2")
    ELSE GetResult(NoneVal, "Bad request - query format may not be supported")

GetOther(status, body) ==
    IF HasKey(body, "error") THEN GetResult(NoneVal, "E1")
    ELSE GetResult(NoneVal, "API error: " \o ToString(status))

Get(o) ==
    IF o.type = "exc"
    THEN CASE o.exc = "TimeoutException" -> GetResult(NoneVal, "Request timed out")
           [] o.exc = "ConnectError" -> GetResult(NoneVal, "Could not connect to server")
           [] OTHER -> GetResult(NoneVal, o.msg)
    ELSE CASE o.status = 200 -> Get200(o.body)
           [] o.status = 404 -> GetResult(NoneVal, "Not found")
           [] o.status = 400 -> Get400(o.body)
           [] OTHER -> GetOther(o.status, o.body)

\* bool(data) for what _get returned: None and {} are false.
TruthyData(data) ==
    /\ data # NoneVal
    /\ ~(data.kind = "object" /\ data.keys = {})

\* data.get("items", []) if isinstance(data, dict) else data: a dict gives
\* its "items" (or []), anything else is iterated itself, and the for loop
\* over a number raises TypeError.
Iterable(data) == data.kind \in {"wrapped", "object"}
ItemsOf(data) == IF data.kind = "wrapped" THEN data.items ELSE <<>>

----------------------------------------------------------------------------
(* The library-name cache: a dict, here a set of <<library_id, name>> pairs. *)

CacheKeys(cache) == {e[1] : e \in cache}

\* cache[k] = v
CachePut(cache, k, v) == {e \in cache : e[1] # k} \cup {<<k, v>>}

\* cache.get(k, default)
CacheGet(cache, k, default) ==
    IF k \in CacheKeys(cache) THEN (CHOOSE e \in cache : e[1] = k)[2] ELSE default

\* The loop of get_libraries over the fetched entries: the cache after it, and
\* whether lib.get raised on an entry that is not an object (the entries
\* before it are already written).
RECURSIVE FillLibraries(_, _)
FillLibraries(cache, items) ==
    IF items = <<>> THEN [cache |-> cache, raised |-> FALSE]
    ELSE LET lib == Head(items)
         IN  IF ~lib.obj THEN [cache |-> cache, raised |-> TRUE]
             ELSE LET lib_id == lib.library_id
                      lib_name == IF lib.name = NoneStr THEN lib_id ELSE lib.name
                  IN  FillLibraries(CachePut(cache, lib_id, lib_name), Tail(items))

----------------------------------------------------------------------------
(* KohaAPIClient._parse_item_json *)

\* data.get(key, 0) == 0
IsZero(flag) == flag \in {"absent", "zero"}
\* bool(data.get(key, 0))
IsSet(flag) == flag = "nonzero"

\* A faulty variant of the status chain that looks at lost before checked out.
StatusTextLostFirst(checked_out, lost_status, damaged_status, withdrawn, not_for_loan) ==
    IF IsSet(lost_status) THEN "Lost"
    ELSE IF checked_out THEN "On Loan"
    ELSE IF IsSet(damaged_status) THEN "Damaged"
    ELSE IF IsSet(withdrawn) THEN "Withdrawn"
    ELSE IF IsSet(not_for_loan) THEN "Reference Only"
    ELSE "Available"

\* The if/elif chain of _parse_item_json that chooses the status text.
StatusText(checked_out, lost_status, damaged_status, withdrawn, not_for_loan) ==
    IF checked_out THEN "On Loan"
    ELSE IF IsSet(lost_status) THEN "Lost"
    ELSE IF IsSet(damaged_status) THEN "Damaged"
    ELSE IF IsSet(withdrawn) THEN "Withdrawn"
    ELSE IF IsSet(not_for_loan) THEN "Reference Only"
    ELSE "Available"

ParseItemJson(data, cache) ==
    LET not_for_loan == data.not_for_loan_status
        lost_status == data.lost_status
        damaged_status == data.damaged_status
        withdrawn == data.withdrawn
        checked_out == data.checked_out_date = "date"
        library_id == data.home_library_id
    IN  [item_id |-> data.item_id,
         library_id |-> library_id,
         library_name |-> CacheGet(cache, library_id, library_id),
         is_available |->
             /\ IsZero(not_for_loan)
             /\ IsZero(lost_status)
             /\ IsZero(damaged_status)
             /\ IsZero(withdrawn)
             /\ ~checked_out,
         status |->
             StatusText(checked_out, lost_status, damaged_status, withdrawn, not_for_loan)]

\* The loop of get_biblio_items: one HoldingItem per entry, in order; item.get
\* raises on an entry that is not an object.
RECURSIVE ParseItems(_, _)
ParseItems(items, cache) ==
    IF items = <<>> THEN [holdings |-> <<>>, raised |-> FALSE]
    ELSE IF ~Head(items).obj THEN [holdings |-> <<>>, raised |-> TRUE]
    ELSE LET rest == ParseItems(Tail(items), cache)
         IN  [holdings |-> <<ParseItemJson(Head(items), cache)>> \o rest.holdings,
              raised |-> rest.raised]

----------------------------------------------------------------------------
(* The OPAC search page and KohaAPIClient._parse_opac_html_results. *)

\* A faulty variant of the title fallback that keeps an empty title.
RecordTitleRaw(biblio_id, title) == title

\* title or f"Record #{biblio_id}"
RecordTitle(biblio_id, title) ==
    IF title # "" THEN title ELSE "Record #" \o ToString(biblio_id)

BiblioRecord(biblio_id, title, source) ==
    [kind |-> "BiblioRecord", biblio_id |-> biblio_id,
     title |-> RecordTitle(biblio_id, title), source |-> source]

\* The text the title patterns capture on a results page.
TitleTexts == {"", "Dune", "Dune /", "Foundation :", " :"}

\* title.strip() followed by re.sub(r'\s*[:/]\s*$', '', title)
CleanTitle(text) ==
    CASE text = "Dune /" -> "Dune"
      [] text = "Foundation :" -> "Foundation"
      [] text = " :" -> ""
      [] OTHER -> text

\* A match of the title_summary pattern (block id and the text of its title
\* link, "" when the block has none) and a match of the checkbox pattern
\* (value and the text after "Select search result:").
Block(id, title) == [id |-> id, title |-> title]
Checkbox(value, label) == [id |-> value, title |-> label]

\* A results page: the matches of the title_summary pattern and of the
\* checkbox pattern, in page order, and the N of "returned N results" (NoCount
\* when the phrase is absent).
NoCount == -1
ReturnedCounts == {NoCount, 0, 5}
Pages ==
    { [blocks |-> b, checkboxes |-> k, returned |-> n] :
        b \in {<<>>, <<Block(7, "Dune /")>>, <<Block(7, "Dune /"), Block(9, "")>>},
        k \in {<<>>, <<Checkbox(42, "Foundation :")>>},
        n \in ReturnedCounts }
NoPage == [blocks |-> <<>>, checkboxes |-> <<>>, returned |-> NoCount]

\* The pages handed to the parser on its own: up to MaxBlocks blocks and
\* MaxCheckboxes checkboxes with any of the title texts.
HtmlPages ==
    { [blocks |-> b, checkboxes |-> k, returned |-> n] :
        b \in SeqsUpTo({ Block(id, t) : id \in {7, 9}, t \in TitleTexts }, MaxBlocks),
        k \in SeqsUpTo({ Checkbox(42, t) : t \in TitleTexts }, MaxCheckboxes),
        n \in ReturnedCounts }

\* The records the parser builds from the matches of one pattern.
RecordsOf(matches) ==
    [i \in 1..Len(matches) |->
        BiblioRecord(matches[i].id, CleanTitle(matches[i].title), "opac_html")]

\* A faulty variant of the parser that adds the checkboxes to the blocks.
ParseOpacHtmlResultsMixed(html) ==
    LET records == RecordsOf(html.blocks \o html.checkboxes)
    IN  [kind |-> "SearchResult", records |-> records, total_count |-> Len(records)]

SearchOutcomes ==
    Exceptions
    \cup { Response(200, p) : p \in Pages }
    \cup { Response(s, NoPage) : s \in PageStatuses \ {200} }

SearchResult(records, total_count) ==
    [kind |-> "SearchResult", records |-> records, total_count |-> total_count]

ParseOpacHtmlResults(html) ==
    LET total == IF html.returned = NoCount THEN 0 ELSE html.returned
        records == IF html.blocks # <<>> THEN RecordsOf(html.blocks)
                   ELSE RecordsOf(html.checkboxes)
    IN  SearchResult(records, IF total = 0 THEN Len(records) ELSE total)

\* _search_via_svc after the request: the pair it returns.
SearchViaSvc(o) ==
    IF o.type = "exc" THEN GetResult(NoneVal, o.msg)
    ELSE IF o.status = 200 THEN GetResult(ParseOpacHtmlResults(o.body), NoneStr)
    ELSE GetResult(NoneVal, NoneStr)

\* search_biblios after _search_via_svc returned r.
SearchBiblios(r) ==
    IF r.data # NoneVal /\ r.data.records # <<>> THEN GetResult(r.data, NoneStr)
    ELSE IF Truthy(r.error) THEN GetResult(NoneVal, r.error)
    ELSE GetResult(SearchResult(<<>>, 0), NoneStr)

----------------------------------------------------------------------------
(* get_biblio: the MARC-in-JSON stage and the OPAC detail page stage. *)

BiblioIds == {7}

\* A MARC-in-JSON field: its tag and its subfields, in document order.
Sub(code, value) == [code |-> code, value |-> value]
MarcField(tag, subfields) == [tag |-> tag, subfields |-> subfields]

\* The fields records are built from when the parser is evaluated on its own.
MarcFields ==
    { MarcField("245", <<Sub("a", "Dune /")>>),
      MarcField("245", <<Sub("a", " /")>>),
      MarcField("245", <<Sub("b", "a novel /")>>),
      MarcField("100", <<Sub("a", "Herbert, Frank,")>>),
      MarcField("100", <<Sub("d", "1920-1986")>>),
      MarcField("110", <<Sub("a", "Ace Books")>>),
      MarcField("700", <<Sub("a", "Smith, J.")>>),
      MarcField("260", <<Sub("c", "c1998.")>>),
      MarcField("260", <<Sub("c", "[n.d.]")>>),
      MarcField("264", <<Sub("c", "1965-1970")>>),
      MarcField("050", <<Sub("a", "PS3558"), Sub("b", ".E63")>>),
      MarcField("050", <<Sub("b", ".E63")>>),
      MarcField("090", <<Sub("a", "LOCAL")>>),
      MarcField("082", <<Sub("a", "813.54")>>) }

MarcRecords == { [kind |-> "marc", fields |-> f] : f \in SeqsUpTo(MarcFields, MaxFields) }

\* Bodies of the record endpoint: not JSON, JSON that is no object (data.get
\* raises in the parser), or a MARC-in-JSON object with its fields.
MarcBodies ==
    { [kind |-> "nonjson"], [kind |-> "list"] }
    \cup { [kind |-> "marc", fields |-> f] :
              f \in {<<>>, <<MarcField("245", <<Sub("a", "Dune /")>>)>>} }

MarcOutcomes ==
    Exceptions
    \cup { Response(200, b) : b \in MarcBodies }
    \cup { Response(s, [kind |-> "nonjson"]) : s \in PageStatuses \ {200} }

\* get_field: the first subfield with the code in the first field with the
\* tag that has one; "" when there is none.
RECURSIVE FirstSub(_, _)
FirstSub(subfields, code) ==
    IF subfields = <<>> THEN [found |-> FALSE, value |-> ""]
    ELSE IF Head(subfields).code = code THEN [found |-> TRUE, value |-> Head(subfields).value]
    ELSE FirstSub(Tail(subfields), code)

RECURSIVE GetField(_, _, _)
GetField(fields, tag, code) ==
    IF fields = <<>> THEN ""
    ELSE LET sf == FirstSub(Head(fields).subfields, code)
         IN  IF Head(fields).tag = tag /\ sf.found THEN sf.value
             ELSE GetField(Tail(fields), tag, code)

\* str.strip() and str.rstrip(chars) on the texts that occur.
StripText(text) ==
    CASE text = " a novel /" -> "a novel /"
      [] text = " / a novel /" -> "/ a novel /"
      [] text = " .E63" -> ".E63"
      [] text = " Dune " -> "Dune"
      [] text = " " -> ""
      [] OTHER -> text
RStripSpaceSlash(text) ==
    CASE text = "Dune /" -> "Dune"
      [] text = " /" -> ""
      [] text = "a novel /" -> "a novel"
      [] text = "/ a novel /" -> "/ a novel"
      [] text = "Dune / a novel /" -> "Dune / a novel"
      [] OTHER -> text
RStripSpaceComma(text) ==
    CASE text = "Herbert, Frank," -> "Herbert, Frank"
      [] OTHER -> text

\* f"{a} {b}".strip()
JoinStrip(a, b) == StripText(a \o " " \o b)

\* re.search(r'(\d{4})', pub_year): the first four consecutive digits, if any.
YearMatch(text) ==
    CASE text = "c1998." -> [found |-> TRUE, year |-> "1998"]
      [] text = "1965-1970" -> [found |-> TRUE, year |-> "1965"]
      [] OTHER -> [found |-> FALSE, year |-> ""]

\* A faulty variant of the author chain that prefers the added entry (700).
MarcAuthorAddedFirst(fields) ==
    LET a700 == GetField(fields, "700", "a")
        a100 == GetField(fields, "100", "a")
    IN  IF a700 # "" THEN a700
        ELSE IF a100 # "" THEN a100
        ELSE GetField(fields, "110", "a")

\* get_field("100", "a") or get_field("110", "a") or get_field("700", "a")
MarcAuthor(fields) ==
    LET a100 == GetField(fields, "100", "a")
        a110 == GetField(fields, "110", "a")
    IN  IF a100 # "" THEN a100
        ELSE IF a110 # "" THEN a110
        ELSE GetField(fields, "700", "a")

ParseMarcInJson(biblio_id, data) ==
    LET fields == data.fields
        title245 == GetField(fields, "245", "a")
        subtitle == GetField(fields, "245", "b")
        title == IF subtitle # "" THEN JoinStrip(title245, subtitle) ELSE title245
        author == MarcAuthor(fields)
        c260 == GetField(fields, "260", "c")
        raw_year == IF c260 # "" THEN c260 ELSE GetField(fields, "264", "c")
        pub_year == IF raw_year # "" /\ YearMatch(raw_year).found
                    THEN YearMatch(raw_year).year ELSE raw_year
        a050 == GetField(fields, "050", "a")
        b050 == GetField(fields, "050", "b")
        lcc050 == IF b050 # "" THEN JoinStrip(a050, b050) ELSE a050
        a090 == GetField(fields, "090", "a")
        b090 == GetField(fields, "090", "b")
        call_number_lcc ==
            IF lcc050 # "" THEN lcc050
            ELSE IF b090 # "" THEN JoinStrip(a090, b090) ELSE a090
        call_number_dewey == GetField(fields, "082", "a")
    IN  [kind |-> "BiblioRecord", biblio_id |-> biblio_id,
         title |-> RecordTitle(biblio_id, RStripSpaceSlash(title)),
         source |-> "marc",
         author |-> RStripSpaceComma(author),
         publication_year |-> pub_year,
         call_number |-> IF call_number_lcc # "" THEN call_number_lcc
                         ELSE call_number_dewey,
         call_number_lcc |-> call_number_lcc,
         call_number_dewey |-> call_number_dewey]

\* _get_biblio_marcjson after the request.
GetBiblioMarcjson(biblio_id, o) ==
    IF o.type = "exc" THEN GetResult(NoneVal, o.msg)
    ELSE IF o.status = 200
    THEN CASE o.body.kind = "nonjson" -> GetResult(NoneVal, MsgJsonDecode)
           [] o.body.kind = "list" -> GetResult(NoneVal, "'list' " \o MsgNoGet)
           [] OTHER -> GetResult(ParseMarcInJson(biblio_id, o.body), NoneStr)
    ELSE IF o.status = 404 THEN GetResult(NoneVal, "Record not found")
    ELSE GetResult(NoneVal, "API error: " \o ToString(o.status))

\* The detail page: the text of its <title> element and the text of its first
\* element with a title class, NoneStr when the pattern has no match.
DetailPage(title_tag, title_class) == [title_tag |-> title_tag, title_class |-> title_class]
DetailPages == { DetailPage("Dune | Library", NoneStr), DetailPage(NoneStr, NoneStr) }
NoDetailPage == DetailPage(NoneStr, NoneStr)

\* The pages handed to the extractor on its own.
DetailHtmls ==
    { DetailPage(t, c) : t \in {NoneStr, "Dune | Library", " | Library"},
                         c \in {NoneStr, " Dune ", " "} }

\* group(1).strip() followed by re.sub(r'\s*[|...]\s*.*$', '', title)
TitleTagText(text) ==
    CASE text = "Dune | Library" -> "Dune"
      [] text = " | Library" -> ""
      [] OTHER -> text

\* The title heuristics: the <title> element, overridden by the element with
\* a title class.
DetailTitle(page) ==
    LET title == IF page.title_tag # NoneStr THEN TitleTagText(page.title_tag) ELSE ""
    IN  IF page.title_class # NoneStr THEN StripText(page.title_class) ELSE title

DetailOutcomes ==
    Exceptions
    \cup { Response(200, p) : p \in DetailPages }
    \cup { Response(s, NoDetailPage) : s \in PageStatuses \ {200} }

\* _get_biblio_from_opac after the request.
GetBiblioFromOpac(biblio_id, o) ==
    IF o.type = "exc" THEN GetResult(NoneVal, o.msg)
    ELSE IF o.status # 200 THEN GetResult(NoneVal, "HTTP " \o ToString(o.status))
    ELSE GetResult(BiblioRecord(biblio_id, DetailTitle(o.body), "opac_html"), NoneStr)

\* Faulty variants of line 486: one returns whatever the MARC stage gave,
\* error included; the other never takes the MARC record.
MarcStageReturnsAnything(r) == r.data # NoneVal \/ Truthy(r.error)
MarcStageNeverTaken(r) == r.data # NoneVal /\ Truthy(r.error)

\* get_biblio, line 486: return the MARC record, or fall back to the page.
MarcStageSucceeded(r) == r.data # NoneVal /\ ~Truthy(r.error)

----------------------------------------------------------------------------
(* The coroutines.  A call is one invocation of a public operation; pc is   *)
(* where it is suspended.  reqs lists the HTTP requests it has issued.  st1 *)
(* and st2 record how its first and second request ended, err1 and err2    *)
(* the errors of the two stages of get_biblio, exc1 and exc2 the exception *)
(* the first and the second request raised, resp the answer to the request *)
(* of search_biblios or get_biblio_items, afterOk whether an error-free    *)
(* get_libraries call had returned before it started.                      *)

IdleCall ==
    [op |-> "idle", pc |-> "idle", arg |-> 0, reqs |-> <<>>,
     result |-> NoneVal, error |-> NoneStr, exc |-> NoneStr,
     st1 |-> "none", err1 |-> NoneStr, st2 |-> "none", err2 |-> NoneStr,
     exc1 |-> "none", exc2 |-> "none", resp |-> NoneVal, afterOk |-> FALSE]

\* The exception class client.get raised for outcome o, if it raised.
ExcOf(o) == IF o.type = "exc" THEN o.exc ELSE "none"

NewCall(op, arg) == [IdleCall EXCEPT !.op = op, !.arg = arg, !.afterOk = libOk.ok]

Suspended(call) == call.pc \in {"await_search", "await_marc", "await_html", "await_get"}
Finished(call) == call.pc \in {"done", "raised"}

\* No other coroutine has a result its caller has not taken yet.  The caller of
\* a finished call takes the outcome before another coroutine runs: taking
\* it touches nothing but the finished call, so no behaviour of the client is
\* lost by this order.
Quiet(c) == \A d \in Calls \ {c} : ~Finished(calls[d])

\* Slot c can start an operation.
Free(c) == calls[c].pc = "idle" /\ Quiet(c)

\* The call returns (result, error) to its caller.
Returned(call, result, error) ==
    [call EXCEPT !.pc = "done", !.result = result, !.error = error]

\* An exception leaves the call.
Raised(call, exc) == [call EXCEPT !.pc = "raised", !.exc = exc]

\* The call issues a request and suspends.
Awaiting(call, pc, endpoint) ==
    [call EXCEPT !.pc = pc, !.reqs = Append(@, endpoint)]

NotInitialized == "Client not initialized"

\* No function has been evaluated.
NoProbe == [fn |-> "none"]
Probe(fn, input, output) == [fn |-> fn, input |-> input, output |-> output]

----------------------------------------------------------------------------
(* The screens.  A screen on the stack has a kind, the number of its       *)
(* workers that are running a fetch, what it displays, and the parameters  *)
(* it was created with; fetched remembers how the request of its fetch     *)
(* ended.                                                                  *)

NoScreen ==
    [kind |-> "none", fetches |-> 0, display |-> "", query |-> "",
     search_type |-> "", biblio_id |-> 0, records |-> <<>>, fetched |-> "none"]

MainMenuScreen == [NoScreen EXCEPT !.kind = "main_menu"]
HelpScreen == [NoScreen EXCEPT !.kind = "help"]
SearchScreen(search_type) ==
    [NoScreen EXCEPT !.kind = "search", !.search_type = search_type]
SearchResultsScreen(query, search_type) ==
    [NoScreen EXCEPT !.kind = "results", !.query = query, !.search_type = search_type]
ItemDetailScreen(biblio_id) ==
    [NoScreen EXCEPT !.kind = "detail", !.biblio_id = biblio_id]

Init ==
    /\ client = 0
    /\ openT = {}
    /\ created = 0
    /\ libraries = {}
    /\ calls = [c \in Calls |-> IdleCall]
    /\ libOk = [ok |-> FALSE, map |-> {}]
    /\ libFills = 0
    /\ lateWrite = FALSE
    /\ stack = <<MainMenuScreen>>
    /\ staleApplied = FALSE
    /\ probe = NoProbe

----------------------------------------------------------------------------
(* The scoped-use lifecycle. *)

\* __aenter__: a new transport replaces whatever _client referred to.
Enter ==
    /\ \A c \in Calls : ~Finished(calls[c])
    /\ created < MaxTransports
    /\ created' = created + 1
    /\ client' = created + 1
    /\ openT' = openT \cup {created + 1}
    /\ UNCHANGED <<libraries, calls, libOk, libFills, lateWrite, uiVars, fnVars>>

\* __aexit__: closes the transport _client refers to, if there is one.  The
\* scope is left when the operations started in it have returned.
Exit ==
    /\ \A c \in Calls : calls[c].pc = "idle"
    /\ IF client # 0
       THEN /\ openT' = openT \ {client}
            /\ client' = 0
       ELSE UNCHANGED <<openT, client>>
    /\ UNCHANGED <<created, libraries, calls, libOk, libFills, lateWrite, uiVars, fnVars>>

----------------------------------------------------------------------------
(* search_biblios *)

\* The search types the request is built for: those of the menu, the call
\* number search, and two the index map does not know.
SearchTypes ==
    {"title", "title_exact", "author", "subject", "series", "keyword", "isbn",
     "callnumber", "publisher", ""}

\* A faulty variant of the index map that falls back to the title index.
IdxOfTitleDefault(search_type) ==
    CASE search_type = "author" -> "au"
      [] search_type = "subject" -> "su"
      [] search_type = "isbn" -> "nb"
      [] search_type = "keyword" -> "kw"
      [] search_type = "series" -> "se"
      [] search_type = "callnumber" -> "callnum"
      [] OTHER -> "ti"

\* idx_map.get(search_type, "kw")
IdxOf(search_type) ==
    CASE search_type = "title" -> "ti"
      [] search_type = "author" -> "au"
      [] search_type = "subject" -> "su"
      [] search_type = "isbn" -> "nb"
      [] search_type = "keyword" -> "kw"
      [] search_type = "series" -> "se"
      [] search_type = "callnumber" -> "callnum"
      [] OTHER -> "kw"

\* The query parameters of the search request.
SearchParams(query, search_type, page, per_page) ==
    [idx |-> IdxOf(search_type), q |-> query,
     offset |-> (page - 1) * per_page, count |-> per_page]

\* A faulty variant of the start of a search that sends the request without
\* looking at _client.
StartSearchUnguarded(c) ==
    /\ Free(c)
    /\ calls' = [calls EXCEPT ![c] =
           Awaiting(NewCall("search", 0), "await_search", "opac-search")]
    /\ UNCHANGED <<client, openT, created, libraries, libOk, libFills, lateWrite, uiVars, fnVars>>

StartSearch(c) ==
    /\ Free(c)
    /\ LET call == NewCall("search", 0)
       IN  calls' = [calls EXCEPT ![c] =
               IF client = 0
               THEN LET r == SearchBiblios(GetResult(NoneVal, NotInitialized))
                    IN  Returned([call EXCEPT !.st1 = "noclient"], r.data, r.error)
               ELSE Awaiting(call, "await_search", "opac-search")]
    /\ UNCHANGED <<client, openT, created, libraries, libOk, libFills, lateWrite, uiVars, fnVars>>

\* How the search request ended.
SearchStage(o) ==
    IF o.type = "exc" THEN "exc"
    ELSE IF o.status # 200 THEN "status"
    ELSE IF ParseOpacHtmlResults(o.body).records # <<>> THEN "records"
    ELSE "norecords"

SearchResponse(c) ==
    /\ calls[c].pc = "await_search"
    /\ Quiet(c)
    /\ \E o \in SearchOutcomes :
          LET r == SearchBiblios(SearchViaSvc(o))
          IN  calls' = [calls EXCEPT ![c] =
                  Returned([@ EXCEPT !.st1 = SearchStage(o), !.exc1 = ExcOf(o), !.resp = o],
                           r.data, r.error)]
    /\ UNCHANGED <<client, openT, created, libraries, libOk, libFills, lateWrite, uiVars, fnVars>>

----------------------------------------------------------------------------
(* get_biblio *)

StartGetBiblio(c) ==
    /\ Free(c)
    /\ \E id \in BiblioIds :
          LET call == NewCall("get_biblio", id)
          IN  calls' = [calls EXCEPT ![c] =
                  IF client = 0
                  THEN Returned([call EXCEPT !.st1 = "noclient", !.err1 = NotInitialized,
                                              !.st2 = "noclient", !.err2 = NotInitialized],
                                NoneVal, NotInitialized)
                  ELSE Awaiting(call, "await_marc", "marc")]
    /\ UNCHANGED <<client, openT, created, libraries, libOk, libFills, lateWrite, uiVars, fnVars>>

\* How the MARC-in-JSON request and the detail page request ended: "ok" is
\* HTTP 200 with a body the stage can turn into a record.
MarcStage(o) ==
    IF o.type = "status" /\ o.status = 200 /\ o.body.kind = "marc" THEN "ok" ELSE "failed"
DetailStage(o) ==
    IF o.type = "status" /\ o.status = 200 THEN "ok" ELSE "failed"

\* get_biblio after _get_biblio_marcjson returned r (lines 486-492, up to the
\* request of _get_biblio_from_opac).
AfterMarc(call, r) ==
    IF MarcStageSucceeded(r) THEN Returned(call, r.data, NoneStr)
    ELSE IF client = 0
    THEN Returned([call EXCEPT !.st2 = "noclient", !.err2 = NotInitialized],
                  NoneVal, NotInitialized)
    ELSE Awaiting(call, "await_html", "opac-detail")

MarcResponse(c) ==
    /\ calls[c].pc = "await_marc"
    /\ Quiet(c)
    /\ \E o \in MarcOutcomes :
          LET r == GetBiblioMarcjson(calls[c].arg, o)
          IN  calls' = [calls EXCEPT ![c] =
                  AfterMarc([@ EXCEPT !.st1 = MarcStage(o), !.err1 = r.error,
                                       !.exc1 = ExcOf(o)], r)]
    /\ UNCHANGED <<client, openT, created, libraries, libOk, libFills, lateWrite, uiVars, fnVars>>

\* A faulty variant of line 492 that asks for the page again when it failed.
AfterHtmlRetry(call, r) ==
    IF r.data = NoneVal THEN Awaiting(call, "await_html", "opac-detail")
    ELSE Returned(call, r.data, r.error)

\* get_biblio returns what _get_biblio_from_opac returned (line 492).
AfterHtml(call, r) == Returned(call, r.data, r.error)

HtmlResponse(c) ==
    /\ calls[c].pc = "await_html"
    /\ Quiet(c)
    /\ \E o \in DetailOutcomes :
          LET r == GetBiblioFromOpac(calls[c].arg, o)
          IN  calls' = [calls EXCEPT ![c] =
                  AfterHtml([@ EXCEPT !.st2 = DetailStage(o), !.err2 = r.error,
                                       !.exc2 = ExcOf(o)], r)]
    /\ UNCHANGED <<client, openT, created, libraries, libOk, libFills, lateWrite, uiVars, fnVars>>

----------------------------------------------------------------------------
(* get_biblio_items *)

Holdings(items) == [kind |-> "holdings", items |-> items]

StartGetBiblioItems(c) ==
    /\ Free(c)
    /\ \E id \in BiblioIds :
          LET call == NewCall("get_biblio_items", id)
          IN  calls' = [calls EXCEPT ![c] =
                  IF client = 0
                  THEN Returned([call EXCEPT !.st1 = "noclient"], Holdings(<<>>), NotInitialized)
                  ELSE Awaiting(call, "await_get", "items")]
    /\ UNCHANGED <<client, openT, created, libraries, libOk, libFills, lateWrite, uiVars, fnVars>>

\* get_biblio_items after _get returned r.
AfterGetItems(call, r, cache) ==
    IF Truthy(r.error) THEN Returned(call, Holdings(<<>>), r.error)
    ELSE IF ~TruthyData(r.data) THEN Returned(call, Holdings(<<>>), NoneStr)
    ELSE IF ~Iterable(r.data) THEN Raised(call, "TypeError")
    ELSE LET parsed == ParseItems(ItemsOf(r.data), cache)
         IN  IF parsed.raised THEN Raised(call, "AttributeError")
             ELSE Returned(call, Holdings(parsed.holdings), NoneStr)

ItemsResponse(c) ==
    /\ calls[c].pc = "await_get"
    /\ Quiet(c)
    /\ calls[c].op = "get_biblio_items"
    /\ \E o \in RestOutcomes(ItemEntries) :
          calls' = [calls EXCEPT ![c] =
              AfterGetItems([@ EXCEPT !.st1 = o.type, !.exc1 = ExcOf(o), !.resp = o],
                            Get(o), libraries)]
    /\ UNCHANGED <<client, openT, created, libraries, libOk, libFills, lateWrite, uiVars, fnVars>>

----------------------------------------------------------------------------
(* get_libraries *)

Libraries(map) == [kind |-> "libraries", map |-> map]

\* The first error-free return of get_libraries is remembered.
NoteReturn(call) ==
    IF call.pc = "done" /\ call.error = NoneStr /\ ~libOk.ok
    THEN [ok |-> TRUE, map |-> call.result.map]
    ELSE libOk

\* The cache decides whether get_libraries fetches at all (line 737).
CacheHit(cache) == cache # {}

StartGetLibraries(c) ==
    /\ Free(c)
    /\ LET call == NewCall("get_libraries", 0)
           next == IF CacheHit(libraries) THEN Returned(call, Libraries(libraries), NoneStr)
                   ELSE IF client = 0
                   THEN Returned([call EXCEPT !.st1 = "noclient"], Libraries({}), NotInitialized)
                   ELSE Awaiting(call, "await_get", "libraries")
       IN  /\ calls' = [calls EXCEPT ![c] = next]
           /\ libOk' = NoteReturn(next)
    /\ UNCHANGED <<client, openT, created, libraries, libFills, lateWrite, uiVars, fnVars>>

\* get_libraries after _get returned r: the call and the cache afterwards.
AfterGetLibraries(call, r, cache) ==
    IF Truthy(r.error)
    THEN [call |-> Returned(call, Libraries({}), r.error), cache |-> cache]
    ELSE IF ~TruthyData(r.data)
    THEN [call |-> Returned(call, Libraries({}), NoneStr), cache |-> cache]
    ELSE IF ~Iterable(r.data)
    THEN [call |-> Raised(call, "TypeError"), cache |-> cache]
    ELSE LET filled == FillLibraries(cache, ItemsOf(r.data))
         IN  IF filled.raised
             THEN [call |-> Raised(call, "AttributeError"), cache |-> filled.cache]
             ELSE [call |-> Returned(call, Libraries(filled.cache), NoneStr),
                   cache |-> filled.cache]

\* The call wrote at least one entry into the cache.
Wrote(r) ==
    /\ ~Truthy(r.error)
    /\ TruthyData(r.data)
    /\ Iterable(r.data)
    /\ ItemsOf(r.data) # <<>>
    /\ Head(ItemsOf(r.data)).obj

LibrariesResponse(c) ==
    /\ calls[c].pc = "await_get"
    /\ Quiet(c)
    /\ calls[c].op = "get_libraries"
    /\ \E o \in RestOutcomes(LibraryEntries) :
          LET r == Get(o)
              after == AfterGetLibraries([calls[c] EXCEPT !.st1 = o.type, !.exc1 = ExcOf(o)],
                                         r, libraries)
          IN  /\ calls' = [calls EXCEPT ![c] = after.call]
              /\ libraries' = after.cache
              /\ libOk' = NoteReturn(after.call)
              /\ libFills' = IF Wrote(r) THEN libFills + 1 ELSE libFills
              /\ lateWrite' = (lateWrite \/ (Wrote(r) /\ libraries # {}))
    /\ UNCHANGED <<client, openT, created, uiVars, fnVars>>

----------------------------------------------------------------------------
(* The caller resumes with the outcome of the call (for instance           *)
(* ItemDetailScreen._fetch_record after each await). *)

ReturnToCaller(c) ==
    /\ Finished(calls[c])
    /\ calls' = [calls EXCEPT ![c] = IdleCall]
    /\ UNCHANGED <<client, openT, created, libraries, libOk, libFills, lateWrite, uiVars, fnVars>>

----------------------------------------------------------------------------

Next ==
    \/ Enter
    \/ Exit
    \/ \E c \in Calls :
          \/ StartSearch(c)
          \/ SearchResponse(c)
          \/ StartGetBiblio(c)
          \/ MarcResponse(c)
          \/ HtmlResponse(c)
          \/ StartGetBiblioItems(c)
          \/ ItemsResponse(c)
          \/ StartGetLibraries(c)
          \/ LibrariesResponse(c)
          \/ ReturnToCaller(c)

Spec == Init /\ [][Next]_vars

----------------------------------------------------------------------------
(* Navigation.  push_screen mounts the new screen on top; pop_screen        *)
(* removes the top screen, and with it the screen's workers: a worker of a *)
(* removed screen is cancelled at its await and runs no further.           *)

Top == stack[Len(stack)]

\* run_worker(..., exclusive=True) / @work(exclusive=True): the screen's
\* running workers are cancelled and one is started.
RunWorkerExclusive(running) == 1

\* on_mount of the screen that push_screen mounts: the results and the detail
\* screen start their fetch.
OnMount(screen) ==
    IF screen.kind \in {"results", "detail"}
    THEN [screen EXCEPT !.fetches = RunWorkerExclusive(@), !.display = "loading"]
    ELSE screen

PushScreen(st, screen) == Append(st, OnMount(screen))
PopScreen(st) == SubSeq(st, 1, Len(st) - 1)

\* MainMenuScreen._handle_action: the search entries of the menu.
MenuSearchTypes ==
    {"title", "title_exact", "author", "subject", "series", "keyword", "isbn"}

MenuSelect ==
    /\ Top.kind = "main_menu"
    /\ \E t \in MenuSearchTypes : stack' = PushScreen(stack, SearchScreen(t))
    /\ UNCHANGED <<staleApplied, clientVars, fnVars>>

\* action_show_help of the main menu and of the results screen.
ShowHelp ==
    /\ Top.kind \in {"main_menu", "results"}
    /\ stack' = PushScreen(stack, HelpScreen)
    /\ UNCHANGED <<staleApplied, clientVars, fnVars>>

\* action_go_back of the help, search, results and detail screens.
GoBack ==
    /\ Top.kind \in {"help", "search", "results", "detail"}
    /\ stack' = PopScreen(stack)
    /\ UNCHANGED <<staleApplied, clientVars, fnVars>>

\* What the user can submit on the search screen, and str.strip() of it.
Inputs == {"", " ", "SO", "so", "B", "dune "}
Strip(v) ==
    CASE v = " " -> ""
      [] v = "dune " -> "dune"
      [] OTHER -> v

\* str.upper()
Upper(v) == IF v = "so" THEN "SO" ELSE v

\* SearchScreen.on_input_submitted
OnInputSubmitted(st, value) ==
    LET query == Strip(value)
        screen == st[Len(st)]
    IN  IF query # ""
        THEN PushScreen(st, SearchResultsScreen(query, screen.search_type))
        ELSE IF Upper(query) = "SO" THEN PopScreen(PopScreen(st))
        ELSE IF Upper(query) = "B" THEN PopScreen(st)
        ELSE st

SearchSubmit ==
    /\ Top.kind = "search"
    /\ \E v \in Inputs : stack' = OnInputSubmitted(stack, v)
    /\ UNCHANGED <<staleApplied, clientVars, fnVars>>

\* What search_biblios returns to the results screen when its request ended
\* with o (the app has entered the client's scope before any screen exists).
SearchReturns(o) == SearchBiblios(SearchViaSvc(o))

\* SearchResultsScreen._update_results on screen i of the stack.
UpdateResults(st, i, results, error) ==
    LET loaded == [st EXCEPT ![i].fetches = 0, ![i].display = "blank"]
    IN  IF Truthy(error)
        THEN [loaded EXCEPT ![i].display = "error"]
        ELSE IF results = NoneVal \/ results.records = <<>>
        THEN [loaded EXCEPT ![i].display = "no_results"]
        ELSE IF Len(results.records) = 1 /\ results.total_count = 1
        THEN PushScreen(PopScreen(loaded), ItemDetailScreen(results.records[1].biblio_id))
        ELSE [loaded EXCEPT ![i].display = "list", ![i].records = results.records]

\* The worker of _load_results resumes after its await and updates the screen.
ResultsLoaded ==
    \E i \in 1..Len(stack) :
        /\ stack[i].kind = "results"
        /\ stack[i].fetches > 0
        /\ \E o \in SearchOutcomes :
              LET r == SearchReturns(o)
                  st == [stack EXCEPT ![i].fetched = SearchStage(o)]
              IN  stack' = UpdateResults(st, i, r.data, r.error)
        /\ staleApplied' = (staleApplied \/ i # Len(stack))
        /\ UNCHANGED <<clientVars, fnVars>>

\* on_list_view_selected / _select_by_number on the results screen: a result
\* opens its detail screen, the message shown in place of results goes back.
ResultsSelect ==
    /\ Top.kind = "results"
    /\ \/ /\ Top.display = "list"
          /\ \E num \in 1..Len(Top.records) :
                stack' = PushScreen(stack, ItemDetailScreen(Top.records[num].biblio_id))
       \/ /\ Top.display \in {"error", "no_results"}
          /\ stack' = PopScreen(stack)
    /\ UNCHANGED <<staleApplied, clientVars, fnVars>>

\* What get_biblio hands to _update_display: a record, an error, or neither.
DetailReturns == {"record", "error", "not_found"}

\* The worker of _fetch_record finishes its awaits; it updates the screen
\* unless it was cancelled.
DetailLoaded ==
    \E i \in 1..Len(stack) :
        /\ stack[i].kind = "detail"
        /\ stack[i].fetches > 0
        /\ \E d \in DetailReturns :
              stack' = [stack EXCEPT ![i].fetches = 0, ![i].display = d]
        /\ staleApplied' = (staleApplied \/ i # Len(stack))
        /\ UNCHANGED <<clientVars, fnVars>>

NextUI ==
    \/ MenuSelect
    \/ ShowHelp
    \/ GoBack
    \/ SearchSubmit
    \/ ResultsLoaded
    \/ ResultsSelect
    \/ DetailLoaded

SpecUI == Init /\ [][NextUI]_vars

----------------------------------------------------------------------------
(* The functions of the client, evaluated on their own: a behaviour hands  *)
(* one input to one function and keeps what it returned.                   *)

\* _get on one answer of a REST endpoint.
EvalGet ==
    /\ probe = NoProbe
    /\ \E o \in RestOutcomes(ItemEntries) \cup RestOutcomes(LibraryEntries) :
          probe' = Probe("_get", o, Get(o))
    /\ UNCHANGED <<clientVars, uiVars>>

\* checked_out_date of an item payload: absent, null or a date.
DateValues == {"absent", "null", "date"}

\* _parse_item_json on one item payload.
EvalParseItemJson ==
    /\ probe = NoProbe
    /\ \E nfl \in FlagValues, lost \in FlagValues, damaged \in FlagValues,
          withdrawn \in FlagValues, checkedOut \in DateValues :
          LET data == Item(1, "CPL", nfl, lost, damaged, withdrawn, checkedOut)
          IN  probe' = Probe("_parse_item_json", data, ParseItemJson(data, {}))
    /\ UNCHANGED <<clientVars, uiVars>>

\* A faulty variant of total_pages that rounds down.
TotalPagesFloor(total_count, per_page) ==
    IF per_page <= 0 THEN 1
    ELSE total_count \div per_page

\* SearchResult.total_pages
TotalPages(total_count, per_page) ==
    IF per_page <= 0 THEN 1
    ELSE (total_count + per_page - 1) \div per_page

\* total_pages for total_count in 0..MaxTotal and per_page in -1..MaxPerPage.
EvalTotalPages ==
    /\ probe = NoProbe
    /\ \E total_count \in 0..MaxTotal, per_page \in -1..MaxPerPage :
          probe' = Probe("total_pages",
                         [total_count |-> total_count, per_page |-> per_page],
                         TotalPages(total_count, per_page))
    /\ UNCHANGED <<clientVars, uiVars>>

\* " | ".join(parts)
RECURSIVE Join(_, _)
Join(sep, parts) ==
    IF parts = <<>> THEN ""
    ELSE IF Len(parts) = 1 THEN parts[1]
    ELSE parts[1] \o sep \o Join(sep, Tail(parts))

\* BiblioRecord.get_call_number: `a or b or ""` takes the first non-empty.
GetCallNumber(record, display_mode) ==
    LET generic == record.call_number
    IN  IF display_mode = "lcc"
        THEN IF record.call_number_lcc # "" THEN record.call_number_lcc ELSE generic
        ELSE IF display_mode = "dewey"
        THEN IF record.call_number_dewey # "" THEN record.call_number_dewey ELSE generic
        ELSE LET loc == IF record.call_number_lcc # ""
                        THEN <<"LOC: " \o record.call_number_lcc>> ELSE <<>>
                 ddc == IF record.call_number_dewey # ""
                        THEN <<"DDC: " \o record.call_number_dewey>> ELSE <<>>
                 parts == loc \o ddc
             IN  IF parts # <<>> THEN Join(" | ", parts) ELSE generic

\* The call number fields of a record and the display modes of the setting.
CallNumbers ==
    { [call_number |-> g, call_number_lcc |-> l, call_number_dewey |-> d] :
        g \in {"", "X1"}, l \in {"", "PS123"}, d \in {"", "813.5"} }
DisplayModes == {"lcc", "dewey", "both"}

EvalGetCallNumber ==
    /\ probe = NoProbe
    /\ \E record \in CallNumbers, mode \in DisplayModes :
          probe' = Probe("get_call_number", [record |-> record, mode |-> mode],
                         GetCallNumber(record, mode))
    /\ UNCHANGED <<clientVars, uiVars>>

\* The values config.call_number_display can hold when the details are
\* formatted: the three modes and one the formatter does not know.
FormatModes == DisplayModes \cup {"none"}

\* The call-number line of format_biblio_details (and of
\* HoldingDetailScreen._format_biblio_details): whether a line is appended
\* and the text after the label.
NoLine == [emitted |-> FALSE, value |-> ""]
Line(value) == [emitted |-> TRUE, value |-> value]
CallNumberLine(record, display_mode) ==
    IF display_mode = "both"
    THEN LET loc == IF record.call_number_lcc # ""
                    THEN <<"LOC: " \o record.call_number_lcc>> ELSE <<>>
             ddc == IF record.call_number_dewey # ""
                    THEN <<"DDC: " \o record.call_number_dewey>> ELSE <<>>
             call_parts == loc \o ddc
         IN  IF call_parts # <<>> THEN Line(Join(" | ", call_parts))
             ELSE IF record.call_number # "" THEN Line(record.call_number)
             ELSE NoLine
    ELSE IF display_mode = "lcc"
    THEN LET cn == IF record.call_number_lcc # "" THEN record.call_number_lcc
                   ELSE record.call_number
         IN  IF cn # "" THEN Line(cn) ELSE NoLine
    ELSE IF display_mode = "dewey"
    THEN LET cn == IF record.call_number_dewey # "" THEN record.call_number_dewey
                   ELSE record.call_number
         IN  IF cn # "" THEN Line(cn) ELSE NoLine
    ELSE NoLine

EvalFormatBiblioDetails ==
    /\ probe = NoProbe
    /\ \E record \in CallNumbers, mode \in FormatModes :
          probe' = Probe("format_biblio_details", [record |-> record, mode |-> mode],
                         CallNumberLine(record, mode))
    /\ UNCHANGED <<clientVars, uiVars>>

\* _parse_opac_html_results on one page.
EvalParseOpacHtmlResults ==
    /\ probe = NoProbe
    /\ \E html \in HtmlPages :
          probe' = Probe("_parse_opac_html_results", html, ParseOpacHtmlResults(html))
    /\ UNCHANGED <<clientVars, uiVars>>

\* _get_biblio_from_opac on one answer to its request.
EvalGetBiblioFromOpac ==
    /\ probe = NoProbe
    /\ \E biblio_id \in BiblioIds,
          o \in Exceptions \cup { Response(200, p) : p \in DetailHtmls }
                \cup { Response(s, NoDetailPage) : s \in PageStatuses \ {200} } :
          probe' = Probe("_get_biblio_from_opac", [biblio_id |-> biblio_id, outcome |-> o],
                         GetBiblioFromOpac(biblio_id, o))
    /\ UNCHANGED <<clientVars, uiVars>>

\* MockKohaAPIClient.get_biblio_items.  The catalog ids asked for (13 is not
\* in SAMPLE_BOOKS), and the random choices of one copy: available, or on
\* loan and due in a number of days.
MockBiblioIds == {1, 13, 20}
InCatalog(biblio_id) == biblio_id \in (1..20) \ {13}
MaxCopies == 5
MaxDueDays == 21
CopyChoices ==
    { [is_available |-> TRUE, days |-> 0] }
    \cup { [is_available |-> FALSE, days |-> d] : d \in {1, MaxDueDays} }

\* due.strftime("%Y-%m-%d") for today + days.
DueDate(days) == "today+" \o ToString(days)

\* A faulty variant of the item id that ignores the copy.
MockItemIdPerRecord(biblio_id, i) == biblio_id * 100

\* item_id = biblio_id * 100 + i + 1, for the copy numbered i + 1.
MockItemId(biblio_id, copy_number) == biblio_id * 100 + copy_number

MockHolding(biblio_id, copy_number, choice) ==
    [item_id |-> MockItemId(biblio_id, copy_number),
     copy_number |-> copy_number,
     status |-> IF choice.is_available THEN "Available" ELSE "On Loan",
     is_available |-> choice.is_available,
     due_date |-> IF choice.is_available THEN NoneStr ELSE DueDate(choice.days)]

MockGetBiblioItems(biblio_id, choices) ==
    IF ~InCatalog(biblio_id) THEN GetResult(<<>>, "Record not found")
    ELSE GetResult([i \in 1..Len(choices) |-> MockHolding(biblio_id, i, choices[i])],
                   NoneStr)

EvalMockGetBiblioItems ==
    /\ probe = NoProbe
    /\ \E biblio_id \in MockBiblioIds,
          choices \in SeqsUpTo(CopyChoices, MaxCopies) \ {<<>>} :
          probe' = Probe("mock.get_biblio_items", [biblio_id |-> biblio_id],
                         MockGetBiblioItems(biblio_id, choices))
    /\ UNCHANGED <<clientVars, uiVars>>

\* The parameters _search_via_svc sends for one search.
EvalSearchParams ==
    /\ probe = NoProbe
    /\ \E search_type \in SearchTypes, page \in 1..MaxPage, per_page \in 1..MaxPerPage :
          probe' = Probe("_search_via_svc",
                         [query |-> "dune", search_type |-> search_type,
                          page |-> page, per_page |-> per_page],
                         SearchParams("dune", search_type, page, per_page))
    /\ UNCHANGED <<clientVars, uiVars>>

\* _parse_marc_in_json on one record.
EvalParseMarcInJson ==
    /\ probe = NoProbe
    /\ \E data \in MarcRecords, biblio_id \in BiblioIds :
          probe' = Probe("_parse_marc_in_json", [biblio_id |-> biblio_id, data |-> data],
                         ParseMarcInJson(biblio_id, data))
    /\ UNCHANGED <<clientVars, uiVars>>

NextFn ==
    \/ EvalFormatBiblioDetails
    \/ EvalMockGetBiblioItems
    \/ EvalSearchParams
    \/ EvalGetBiblioFromOpac
    \/ EvalParseMarcInJson
    \/ EvalParseOpacHtmlResults
    \/ EvalGet
    \/ EvalParseItemJson
    \/ EvalTotalPages
    \/ EvalGetCallNumber

SpecFn == Init /\ [][NextFn]_vars

----------------------------------------------------------------------------
(* Properties of the fetch orchestrator.                                   *)

IsPrefix(s, t) == Len(s) <= Len(t) /\ s = SubSeq(t, 1, Len(s))

\* C1: get_record: whenever the MARC-in-JSON request fails (HTTP 404, another
\* 4xx/5xx, a transport exception, a 200 body that cannot be parsed) the HTML
\* detail page is requested next and the call does not return from the first
\* stage; if the detail stage fails too, the pair returned is (None, error of
\* the detail stage).
C1_FallbackToDetailPage ==
    \A c \in Calls :
        LET call == calls[c]
        IN  (call.op = "get_biblio" /\ call.st1 = "failed") =>
                /\ call.reqs = <<"marc", "opac-detail">>
                /\ call.pc = "done" => call.st2 # "none"
                /\ (call.pc = "done" /\ call.st2 = "failed") =>
                       /\ call.result = NoneVal
                       /\ call.error = call.err2

\* Both stages of a get_record call failed and the call returned.
C1_Witness ==
    \E c \in Calls :
        /\ calls[c].op = "get_biblio"
        /\ calls[c].pc = "done"
        /\ calls[c].st1 = "failed"
        /\ calls[c].st2 = "failed"
        /\ calls[c].err1 # calls[c].err2

\* C2: no public operation lets an exception escape: whatever the status, the
\* body or the transport failure, the call ends by returning a pair.
C2_NoExceptionEscapes ==
    \A c \in Calls : calls[c].pc # "raised"

\* C3: when the OPAC search request completes with a status other than 200,
\* search returns a null result and a non-null error.
C3_SearchStatusIsAnError ==
    \A c \in Calls :
        LET call == calls[c]
        IN  (call.op = "search" /\ call.pc = "done" /\ call.st1 = "status") =>
                /\ call.result = NoneVal
                /\ call.error # NoneStr

\* C4: search returns exactly one of three shapes: a SearchResult with at
\* least one record and no error when records were extracted; an empty
\* SearchResult and no error when the page was fetched and parsed but held no
\* records; no result and an error text when the request failed.
C4_SearchShapes ==
    \A c \in Calls :
        LET call == calls[c]
        IN  (call.op = "search" /\ call.pc = "done") =>
                \/ /\ call.st1 = "records"
                   /\ call.result.kind = "SearchResult"
                   /\ call.result.records # <<>>
                   /\ call.error = NoneStr
                \/ /\ call.st1 = "norecords"
                   /\ call.result.kind = "SearchResult"
                   /\ call.result.records = <<>>
                   /\ call.error = NoneStr
                \/ /\ call.st1 \in {"exc", "status", "noclient"}
                   /\ call.result = NoneVal
                   /\ call.error # NoneStr

\* C5: get_record: when the MARC-in-JSON request returns HTTP 200 with a
\* parseable body, the record of the MARC parser is returned with no error and
\* the detail page is not requested in that call; the detail page is requested
\* only after the MARC request has completed and failed.
C5_MarcRecordWins ==
    \A c \in Calls :
        LET call == calls[c]
        IN  call.op = "get_biblio" =>
                /\ call.st1 = "ok" =>
                       /\ call.pc = "done"
                       /\ call.reqs = <<"marc">>
                       /\ call.result.kind = "BiblioRecord"
                       /\ call.result.source = "marc"
                       /\ call.result.biblio_id = call.arg
                       /\ call.error = NoneStr
                /\ (\E i \in 1..Len(call.reqs) : call.reqs[i] = "opac-detail") =>
                       /\ call.st1 = "failed"
                       /\ call.reqs = <<"marc", "opac-detail">>

\* A get_record call returned the MARC record.
C5_Witness ==
    \E c \in Calls :
        /\ calls[c].op = "get_biblio"
        /\ calls[c].pc = "done"
        /\ calls[c].st1 = "ok"

\* C6: once a get_libraries call has returned without error, every later
\* get_libraries call returns the same mapping and issues no HTTP request.
C6_LibrariesFetchedOnce ==
    \A c \in Calls :
        LET call == calls[c]
        IN  (call.op = "get_libraries" /\ call.afterOk) =>
                /\ call.reqs = <<>>
                /\ call.pc = "done" => call.result = Libraries(libOk.map)

\* C7: the library-name cache is populated by at most one network fetch and,
\* once populated, never written again.
C7_CacheFilledOnce == libFills <= 1 /\ ~lateWrite

\* C8: at most one transport is open at a time, the open transport is the one
\* the orchestrator refers to, and when it refers to none (after an exit) no
\* transport remains open.
C8_OneTransport ==
    /\ Cardinality(openT) <= 1
    /\ client # 0 => openT = {client}
    /\ client = 0 => openT = {}

\* C9: within one call search, get_holdings and get_libraries issue at most
\* one HTTP request each, and get_record at most the MARC-in-JSON request
\* followed by one detail page request.
C9_NoRetries ==
    \A c \in Calls :
        LET call == calls[c]
        IN  /\ call.op = "search" => IsPrefix(call.reqs, <<"opac-search">>)
            /\ call.op = "get_biblio_items" => IsPrefix(call.reqs, <<"items">>)
            /\ call.op = "get_libraries" => IsPrefix(call.reqs, <<"libraries">>)
            /\ call.op = "get_biblio" => IsPrefix(call.reqs, <<"marc", "opac-detail">>)
            /\ call.op = "idle" => call.reqs = <<>>

\* A get_record call returned after both of its requests failed, and calls of
\* the other operations each finished a failed request.
C9_Witness ==
    /\ \E c \in Calls :
          /\ calls[c].op = "get_biblio"
          /\ calls[c].pc = "done"
          /\ calls[c].st2 = "failed"
          /\ Len(calls[c].reqs) = 2
    /\ \E c \in Calls :
          /\ calls[c].op \in {"search", "get_biblio_items", "get_libraries"}
          /\ Len(calls[c].reqs) = 1

\* C13: through the shared GET helper, status 200 gives the parsed body (a
\* list wrapped as the items of a dict) and a null error; 404 gives no result
\* and "Not found"; 400 gives "Bad request: " followed by the body's error
\* field (or else its errors field) when the JSON body has one, otherwise the
\* generic malformed-query message; any other status gives the body's error
\* field when present, otherwise "API error: {status}".
C13_GetClassification ==
    (probe.fn = "_get" /\ probe.input.type = "status") =>
        LET status == probe.input.status
            body == probe.input.body
            data == probe.output.data
            error == probe.output.error
            hasError == body.kind = "object" /\ "error" \in body.keys
            hasErrors == body.kind = "object" /\ "errors" \in body.keys
        IN  /\ (status = 200 /\ body.kind # "nonjson") =>
                   /\ error = NoneStr
                   /\ body.kind = "list" => data = [kind |-> "wrapped", items |-> body.items]
                   /\ body.kind = "null" => data = NoneVal
                   /\ body.kind \in {"number", "object"} => data = body
            /\ status = 404 => (data = NoneVal /\ error = "Not found")
            /\ status = 400 =>
                   /\ data = NoneVal
                   /\ hasError => error = "Bad request: E1"
                   /\ (~hasError /\ hasErrors) => error = "Bad request: E2"
                   /\ (~hasError /\ ~hasErrors) =>
                          error = "Bad request - query format may not be supported"
            /\ status \notin {200, 400, 404} =>
                   /\ data = NoneVal
                   /\ hasError => error = "E1"
                   /\ ~hasError => error = "API error: " \o ToString(status)

\* A flag of an item payload is set when it is present with a non-zero value;
\* the item is checked out when checked_out_date is a date.
FlagSet(flag) == flag = "nonzero"
CheckedOut(data) == data.checked_out_date = "date"

\* C14: for every item payload (each status flag absent, null, 0 or non-zero,
\* checked_out_date absent, null or a date) the parsed HoldingItem has
\* is_available true exactly when none of not_for_loan, lost, damaged,
\* withdrawn, checked_out is set.
C14_AvailableIffNoFlag ==
    probe.fn = "_parse_item_json" =>
        LET data == probe.input
        IN  probe.output.is_available <=>
                /\ ~FlagSet(data.not_for_loan_status)
                /\ ~FlagSet(data.lost_status)
                /\ ~FlagSet(data.damaged_status)
                /\ ~FlagSet(data.withdrawn)
                /\ ~CheckedOut(data)

\* C15: the status of a HoldingItem follows a fixed precedence for every
\* combination of the five flags: "On Loan" if checked out, else "Lost", else
\* "Damaged", else "Withdrawn", else "Reference Only", else "Available"; the
\* first set flag in that order decides.
C15_StatusPrecedence ==
    probe.fn = "_parse_item_json" =>
        LET data == probe.input
            status == probe.output.status
        IN  /\ CheckedOut(data) => status = "On Loan"
            /\ (~CheckedOut(data) /\ FlagSet(data.lost_status)) => status = "Lost"
            /\ (~CheckedOut(data) /\ ~FlagSet(data.lost_status)
                  /\ FlagSet(data.damaged_status)) => status = "Damaged"
            /\ (~CheckedOut(data) /\ ~FlagSet(data.lost_status)
                  /\ ~FlagSet(data.damaged_status) /\ FlagSet(data.withdrawn)) =>
                   status = "Withdrawn"
            /\ (~CheckedOut(data) /\ ~FlagSet(data.lost_status)
                  /\ ~FlagSet(data.damaged_status) /\ ~FlagSet(data.withdrawn)
                  /\ FlagSet(data.not_for_loan_status)) => status = "Reference Only"
            /\ (~CheckedOut(data) /\ ~FlagSet(data.lost_status)
                  /\ ~FlagSet(data.damaged_status) /\ ~FlagSet(data.withdrawn)
                  /\ ~FlagSet(data.not_for_loan_status)) => status = "Available"

\* An item that is checked out and lost at once was parsed, and its status
\* is "On Loan".
C15_Witness ==
    /\ probe.fn = "_parse_item_json"
    /\ CheckedOut(probe.input)
    /\ FlagSet(probe.input.lost_status)
    /\ probe.output.status = "On Loan"

\* ceil(a / b) for a >= 0, b > 0: the least n with n * b >= a.
Ceil(a, b) == CHOOSE n \in 0..a : n * b >= a /\ \A m \in 0..a : m * b >= a => n <= m

\* C16: for all per_page > 0 and total_count >= 0, total_pages equals
\* ceil(total_count / per_page) and is at least 1; for per_page <= 0 it is 1.
C16_TotalPages ==
    probe.fn = "total_pages" =>
        LET total_count == probe.input.total_count
            per_page == probe.input.per_page
        IN  /\ per_page > 0 =>
                   /\ probe.output = Ceil(total_count, per_page)
                   /\ probe.output >= 1
            /\ per_page <= 0 => probe.output = 1

\* C16, as it holds: for all per_page > 0 and total_count >= 0, total_pages
\* equals ceil(total_count / per_page), which is at least 1 when total_count
\* is at least 1 and 0 when total_count is 0; for per_page <= 0 it is 1.
C16_TotalPagesIsCeil ==
    probe.fn = "total_pages" =>
        LET total_count == probe.input.total_count
            per_page == probe.input.per_page
        IN  /\ per_page > 0 =>
                   /\ probe.output = Ceil(total_count, per_page)
                   /\ total_count >= 1 => probe.output >= 1
                   /\ total_count = 0 => probe.output = 0
            /\ per_page <= 0 => probe.output = 1

\* total_pages was computed for a count that does not fill its last page.
C16_Witness ==
    /\ probe.fn = "total_pages"
    /\ probe.input.per_page = 3
    /\ probe.input.total_count = 7
    /\ probe.output = 3

\* C17: get_call_number, for every combination of empty and non-empty LCC,
\* Dewey and generic call number: mode "both" returns the non-empty segments
\* "LOC: {lcc}" and "DDC: {dewey}" joined by " | "; mode "lcc" returns the LCC
\* value; mode "dewey" returns the Dewey value; the generic call number is
\* returned when neither LCC nor Dewey is populated.
C17_CallNumber ==
    probe.fn = "get_call_number" =>
        LET lcc == probe.input.record.call_number_lcc
            dewey == probe.input.record.call_number_dewey
            generic == probe.input.record.call_number
            mode == probe.input.mode
            out == probe.output
        IN  IF lcc = "" /\ dewey = "" THEN out = generic
            ELSE /\ mode = "lcc" => out = lcc
                 /\ mode = "dewey" => out = dewey
                 /\ mode = "both" =>
                        out = IF dewey = "" THEN "LOC: " \o lcc
                              ELSE IF lcc = "" THEN "DDC: " \o dewey
                              ELSE "LOC: " \o lcc \o " | " \o "DDC: " \o dewey

\* C18: get_holdings uses the single items request: when the response holds
\* no items (a null body, an object without items, an empty list) it returns
\* an empty list with a null error; otherwise it returns exactly one
\* HoldingItem per item record of the response, in response order.
C18_OneHoldingPerItem ==
    \A c \in Calls :
        LET call == calls[c]
            body == call.resp.body
            noItems == \/ body.kind \in {"null", "object"}
                       \/ body.kind = "list" /\ body.items = <<>>
            records == body.kind = "list" /\ body.items # <<>>
                       /\ \A i \in 1..Len(body.items) : body.items[i].obj
        IN  (/\ call.op = "get_biblio_items"
             /\ Finished(call)
             /\ call.resp # NoneVal
             /\ call.resp.type = "status"
             /\ call.resp.status = 200) =>
                /\ call.reqs = <<"items">>
                /\ noItems =>
                       /\ call.pc = "done"
                       /\ call.result = [kind |-> "holdings", items |-> <<>>]
                       /\ call.error = NoneStr
                /\ records =>
                       /\ call.pc = "done"
                       /\ call.error = NoneStr
                       /\ Len(call.result.items) = Len(body.items)
                       /\ \A i \in 1..Len(body.items) :
                              call.result.items[i].item_id = body.items[i].item_id

\* The records expected from the matches of one pattern: one per match, in
\* page order, with the id of the match.
SameIds(records, matches) ==
    /\ Len(records) = Len(matches)
    /\ \A i \in 1..Len(matches) : records[i].biblio_id = matches[i].id

C20_TotalCount ==
    \A c \in Calls :
        LET call == calls[c]
            html == call.resp.body
            extracted == IF html.blocks # <<>> THEN Len(html.blocks)
                         ELSE Len(html.checkboxes)
        IN  (/\ call.op = "search"
             /\ call.pc = "done"
             /\ call.resp # NoneVal
             /\ call.resp.type = "status"
             /\ call.resp.status = 200) =>
                /\ call.result # NoneVal
                /\ call.result.total_count =
                       IF html.returned # NoCount THEN html.returned ELSE extracted

\* The positions of the fields with the tag that have a subfield with the
\* code, and the value of the first such subfield of the first such field
\* ("" when there is none).
Having(fields, tag, code) ==
    { i \in 1..Len(fields) :
        /\ fields[i].tag = tag
        /\ \E j \in 1..Len(fields[i].subfields) : fields[i].subfields[j].code = code }
FirstMatch(fields, tag, code) ==
    LET idx == Having(fields, tag, code)
    IN  IF idx = {} THEN ""
        ELSE LET i == CHOOSE i \in idx : \A k \in idx : i <= k
                 subs == fields[i].subfields
                 j == CHOOSE j \in 1..Len(subs) :
                          /\ subs[j].code = code
                          /\ \A k \in 1..Len(subs) : subs[k].code = code => j <= k
             IN  subs[j].value

\* $a with $b appended.
WithCutter(a, b) ==
    IF b = "" THEN a ELSE IF a = "" THEN b ELSE a \o " " \o b

\* C26: for every raw 260/264 $c value, the publication_year of a
\* MARC-parsed record is either empty (no $c present) or exactly the first
\* substring of four consecutive digits of that value; a raw value is never
\* passed through unreduced.
C26_PublicationYear ==
    probe.fn = "_parse_marc_in_json" =>
        LET fields == probe.input.data.fields
            c260 == FirstMatch(fields, "260", "c")
            raw == IF c260 # "" THEN c260 ELSE FirstMatch(fields, "264", "c")
            year == probe.output.publication_year
        IN  /\ raw = "" => year = ""
            /\ raw = "c1998." => year = "1998"
            /\ raw = "1965-1970" => year = "1965"
            /\ year \in {"", "1998", "1965"}

\* C27: MARC alternatives are resolved first-match-wins in document order:
\* author is $a of field 100 when that yields a value, else of 110, else of
\* 700; call_number_lcc comes from field 050 ($a with $b appended) and field
\* 090 is consulted only when 050 yields nothing; the generic call_number is
\* call_number_lcc when that is non-empty and call_number_dewey otherwise; an
\* absent tag or subfield yields an empty string.
C27_FirstMatchWins ==
    probe.fn = "_parse_marc_in_json" =>
        LET fields == probe.input.data.fields
            out == probe.output
            a100 == FirstMatch(fields, "100", "a")
            a110 == FirstMatch(fields, "110", "a")
            a700 == FirstMatch(fields, "700", "a")
            raw_author == IF a100 # "" THEN a100 ELSE IF a110 # "" THEN a110 ELSE a700
            lcc050 == WithCutter(FirstMatch(fields, "050", "a"), FirstMatch(fields, "050", "b"))
            lcc090 == WithCutter(FirstMatch(fields, "090", "a"), FirstMatch(fields, "090", "b"))
            lcc == IF lcc050 # "" THEN lcc050 ELSE lcc090
            dewey == FirstMatch(fields, "082", "a")
        IN  /\ out.author = (IF raw_author = "Herbert, Frank," THEN "Herbert, Frank"
                              ELSE raw_author)
            /\ out.call_number_lcc = lcc
            /\ out.call_number_dewey = dewey
            /\ out.call_number = (IF lcc # "" THEN lcc ELSE dewey)

\* A record with a 700 field before a 110 field and no 100 $a was parsed: the
\* author is the one of 110.
C27_Witness ==
    /\ probe.fn = "_parse_marc_in_json"
    /\ Len(probe.input.data.fields) = 3
    /\ probe.input.data.fields[1].tag = "700"
    /\ probe.input.data.fields[2].tag = "110"
    /\ probe.input.data.fields[3].tag = "100"
    /\ probe.output.author = "Ace Books"

\* C21: every record produced by a parser (MARC-in-JSON, the HTML result
\* extractor in both tiers, the HTML detail extractor) has a non-empty title;
\* when the source title is absent or empty after trimming, the title is
\* exactly "Record #{biblio_id}".
C21_TitleNeverEmpty ==
    /\ probe.fn = "_parse_marc_in_json" =>
          LET fields == probe.input.data.fields
              a == FirstMatch(fields, "245", "a")
              b == FirstMatch(fields, "245", "b")
          IN  /\ probe.output.title # ""
              /\ (b = "" /\ a \in {"", " /"}) =>
                    probe.output.title = "Record #" \o ToString(probe.input.biblio_id)
    /\ probe.fn = "_parse_opac_html_results" =>
          LET found == IF probe.input.blocks # <<>> THEN probe.input.blocks
                       ELSE probe.input.checkboxes
              records == probe.output.records
          IN  /\ Len(records) = Len(found)
              /\ \A i \in 1..Len(records) :
                    /\ records[i].title # ""
                    /\ found[i].title \in {"", " :"} =>
                          records[i].title = "Record #" \o ToString(found[i].id)
    /\ (probe.fn = "_get_biblio_from_opac" /\ probe.output.data # NoneVal) =>
          LET page == probe.input.outcome.body
              absent == IF page.title_class # NoneStr THEN page.title_class = " "
                        ELSE page.title_tag \in {NoneStr, " | Library"}
          IN  /\ probe.output.data.title # ""
              /\ absent => probe.output.data.title
                              = "Record #" \o ToString(probe.input.biblio_id)

\* The checkbox tier produced a record from a title that is empty after
\* trimming.
C21_Witness ==
    /\ probe.fn = "_parse_opac_html_results"
    /\ probe.input.blocks = <<>>
    /\ Len(probe.input.checkboxes) = 1
    /\ probe.input.checkboxes[1].title = " :"
    /\ Len(probe.output.records) = 1
    /\ probe.output.records[1].title = "Record #42"

\* C22: the index code of a search request is a fixed function of
\* search_type: title -> "ti", author -> "au", subject -> "su", isbn -> "nb",
\* keyword -> "kw", series -> "se", callnumber -> "callnum", and every other
\* value (title_exact included) -> "kw"; the request carries
\* offset = (page - 1) * per_page and count = per_page.
C22_SearchRequest ==
    probe.fn = "_search_via_svc" =>
        LET in == probe.input
            known == {<<"title", "ti">>, <<"author", "au">>, <<"subject", "su">>,
                      <<"isbn", "nb">>, <<"keyword", "kw">>, <<"series", "se">>,
                      <<"callnumber", "callnum">>}
        IN  /\ \A k \in known : in.search_type = k[1] => probe.output.idx = k[2]
            /\ (\A k \in known : in.search_type # k[1]) => probe.output.idx = "kw"
            /\ probe.output.offset = (in.page - 1) * in.per_page
            /\ probe.output.count = in.per_page
            /\ probe.output.q = in.query

\* The second page of an exact-title search was requested.
C22_Witness ==
    /\ probe.fn = "_search_via_svc"
    /\ probe.input.search_type = "title_exact"
    /\ probe.input.page = 2
    /\ probe.input.per_page = 3
    /\ probe.output.idx = "kw"
    /\ probe.output.offset = 3

\* C23: the mock's holdings are deterministically shaped under every random
\* choice: for a biblio_id of the fixed catalog it returns between 1 and 5
\* holdings with copy numbers 1..n in order and pairwise distinct item ids,
\* and every holding is either (is_available, "Available", no due date) or
\* (not is_available, "On Loan", a due date).
C23_MockHoldingsShape ==
    (probe.fn = "mock.get_biblio_items" /\ probe.input.biblio_id \in {1, 20}) =>
        LET h == probe.output.data
        IN  /\ probe.output.error = NoneStr
            /\ Len(h) >= 1 /\ Len(h) <= 5
            /\ \A i \in 1..Len(h) : h[i].copy_number = i
            /\ \A i, j \in 1..Len(h) : i # j => h[i].item_id # h[j].item_id
            /\ \A i \in 1..Len(h) :
                  \/ /\ h[i].is_available = TRUE
                     /\ h[i].status = "Available"
                     /\ h[i].due_date = NoneStr
                  \/ /\ h[i].is_available = FALSE
                     /\ h[i].status = "On Loan"
                     /\ h[i].due_date \notin {NoneStr, ""}

\* Five copies were generated, the first on loan and the last available.
C23_Witness ==
    /\ probe.fn = "mock.get_biblio_items"
    /\ probe.input.biblio_id = 20
    /\ Len(probe.output.data) = 5
    /\ probe.output.data[1].status = "On Loan"
    /\ probe.output.data[5].status = "Available"

\* C28: a get_libraries call that does not succeed (it returns an error, or
\* processing of the fetched list stops part-way on a malformed entry) leaves
\* the library-name cache exactly as it was before the call.
C28_FailedCallLeavesCache ==
    [][\A c \in Calls :
          (/\ calls'[c] # calls[c]
           /\ calls'[c].op = "get_libraries"
           /\ \/ calls'[c].pc = "raised"
              \/ calls'[c].pc = "done" /\ Truthy(calls'[c].error))
          => libraries' = libraries]_vars

\* C29: outside the scoped-use block (before the first entry, or after exit)
\* search, get_record and get_holdings, and get_libraries with an empty
\* cache, issue no HTTP request and return a null/empty result with the error
\* "Client not initialized"; inside the block (after a re-entry as well) a
\* call that starts sends its request.
C29_OutsideScope ==
    [][\A c \in Calls :
          (/\ calls[c].pc = "idle"
           /\ calls'[c].pc # "idle"
           /\ ~(calls'[c].op = "get_libraries" /\ libraries # {}))
          => IF client = 0
             THEN /\ calls'[c].pc = "done"
                  /\ calls'[c].reqs = <<>>
                  /\ calls'[c].error = "Client not initialized"
                  /\ calls'[c].result =
                        CASE calls'[c].op = "get_biblio_items" -> [kind |-> "holdings", items |-> <<>>]
                          [] calls'[c].op = "get_libraries" -> [kind |-> "libraries", map |-> {}]
                          [] OTHER -> NoneVal
             ELSE /\ Suspended(calls'[c])
                  /\ Len(calls'[c].reqs) = 1]_vars

\* After the scope was entered and left, a search returned the error without
\* a request.
C29_Witness ==
    /\ created = 1
    /\ client = 0
    /\ \E c \in Calls :
          /\ calls[c].op = "search"
          /\ calls[c].pc = "done"
          /\ calls[c].reqs = <<>>
          /\ calls[c].error = "Client not initialized"

\* C30: format_biblio_details and BiblioRecord.get_call_number agree: for
\* every record and every display-mode string (values other than "lcc",
\* "dewey" and "both" included) the formatter emits a call-number line exactly
\* when get_call_number(mode) is non-empty, and the value of the line equals
\* get_call_number(mode).
C30_FormatterAgrees ==
    probe.fn = "format_biblio_details" =>
        LET expected == GetCallNumber(probe.input.record, probe.input.mode)
        IN  /\ probe.output.emitted <=> expected # ""
            /\ probe.output.emitted => probe.output.value = expected

\* The messages of _get for the two transport failures it tells apart.
MsgTimedOut == "Request timed out"
MsgNoConnect == "Could not connect to server"

\* The message the caller must see for an exception class, if one is fixed.
Classified(exc, error) ==
    /\ exc = "ConnectError" => error = MsgNoConnect
    /\ exc = "TimeoutException" => error = MsgTimedOut

\* C12: for every HTTP call of every operation (search page, MARC-in-JSON
\* record, detail page, holdings, libraries) a connection failure reaches the
\* caller as the "could not connect" message and a timeout as the "request
\* timed out" message.
C12_TransportFailuresClassified ==
    \A c \in Calls :
        LET call == calls[c]
        IN  call.pc = "done" =>
                /\ call.op \in {"search", "get_biblio_items", "get_libraries"} =>
                       Classified(call.exc1, call.error)
                /\ call.op = "get_biblio" =>
                       /\ Classified(call.exc1, call.err1)
                       /\ Classified(call.exc2, call.err2)

----------------------------------------------------------------------------
(* Properties of the screens.                                              *)

C11_ResultsOutcome ==
    \A i \in 1..Len(stack) :
        LET screen == stack[i]
        IN  (screen.kind = "results" /\ screen.fetches = 0) =>
                /\ screen.fetched \in {"exc", "status"} => screen.display = "error"
                /\ screen.fetched = "norecords" => screen.display = "no_results"
                /\ screen.fetched = "records" => screen.display \in {"list", "blank"}

C25_CommandsStartNoSearch ==
    \A i \in 1..Len(stack) :
        stack[i].kind = "results" => stack[i].query \notin {"SO", "so", "B"}

====
